---- MODULE Spec2Model ----
(***************************************************************************)
(* Model of github_pr_mcp.py: the command runner, the diff parser, the     *)
(* comprehensive-review pipeline (analyze_pr) with the operations it       *)
(* calls (get_pr_diff, analyze_code, post_review_comment), and the four    *)
(* other tools called on their own (analyze_code, run_tests, get_pr_diff,  *)
(* post_review_comment).                                                   *)
(*                                                                         *)
(* Python dicts are functions over their string keys (Put adds or          *)
(* overwrites a key, Has tests membership).  A text whose content does not *)
(* steer the code is a record [s, n]: the first n characters of the        *)
(* content named s.  Diff text and paths, which the parser cuts apart, are *)
(* sequences of one-character strings.  json.dumps followed by json.loads  *)
(* maps every value used here (dicts with string keys, lists, strings,     *)
(* integers, booleans) to itself and keeps key order, so the payloads that *)
(* cross a call boundary are carried unchanged.                            *)
(***************************************************************************)
EXTENDS Integers, Sequences, FiniteSets, TLC

VARIABLES
    GITHUB_TOKEN,      \* module global read from the environment at import
    runs,              \* the comprehensive-review runs in progress
    params,            \* run -> AnalyzePRInput
    pc,                \* run -> position of the run inside analyze_pr
    review_results,    \* run -> the review_results dict
    go_files,          \* run -> local go_files
    analysis_results,  \* run -> local analysis_results of stage 2
    file_idx,          \* run -> position of the for loop over go_files
    pr_data,           \* run -> local pr_data of get_pr_diff
    calls,             \* run -> external calls issued so far, in order
    raised,            \* run -> exception types that reached a handler
    returned,          \* run -> value returned to the caller
    existed,           \* run -> answers of exists() to the listings passed
    cmd_pc,            \* command runner driver: "ready" or "done"
    cmd_call,          \* command runner driver: command, cwd, process event
    cmd_result,        \* command runner driver: what _run_command returned
    diff_pc,           \* diff parser driver: "ready" or "done"
    diff_lines,        \* diff parser driver: the lines the diff was built of
    diff_text,         \* diff parser driver: the diff text
    diff_result,       \* diff parser driver: what the parser returned/raised
    tool_pc,           \* tool driver: "ready" or "done"
    tool_call,         \* tool driver: the tool called and its params
    tool_result        \* tool driver: environment met, calls made, outcome

vars == <<GITHUB_TOKEN, runs, params, pc, review_results, go_files,
          analysis_results, file_idx, pr_data, calls, raised, returned, existed,
          cmd_pc, cmd_call, cmd_result,
          diff_pc, diff_lines, diff_text, diff_result,
          tool_pc, tool_call, tool_result>>

pipeline_vars == <<GITHUB_TOKEN, runs, params, pc, review_results, go_files,
                   analysis_results, file_idx, pr_data, calls, raised, returned,
                   existed>>
cmd_vars == <<cmd_pc, cmd_call, cmd_result>>
diff_vars == <<diff_pc, diff_lines, diff_text, diff_result>>
tool_vars == <<tool_pc, tool_call, tool_result>>

(***************************************************************************)
(* Bounds of the model.                                                    *)
(***************************************************************************)
\* longest diff, in lines, given to the parser driver
MaxDiffLines == 2
\* length of a tool output longer than the review body's cut
LongLen == 501
\* length of a short tool output
ShortLen == 8

(***************************************************************************)
(* Dicts and texts.                                                        *)
(***************************************************************************)
EmptyDict == <<>>
Has(d, k) == k \in DOMAIN d
Put(d, k, v) == [x \in (DOMAIN d) \cup {k} |-> IF x = k THEN v ELSE d[x]]

EmptyText == [s |-> "", n |-> 0]
Text(name, len) == IF len = 0 THEN EmptyText ELSE [s |-> name, n |-> len]
\* Python truthiness of a str
Truthy(t) == t.n > 0
\* a slice that keeps the whole text
PrefixWhole(t, k) == t

\* t[:k]
Prefix(t, k) == IF t.n <= k THEN t ELSE Text(t.s, k)

(***************************************************************************)
(* _run_command: what subprocess.run does is the process event ev.         *)
(***************************************************************************)
TimeoutText == Text("Command timed out after 5 minutes", 33)

\* a wrong success test: any non-negative exit status counts as success
RunCommandSuccessNonNegative(ev) ==
    CASE ev.kind = "exit" ->
           [stdout |-> ev.out, stderr |-> ev.err,
            returncode |-> ev.rc, success |-> (ev.rc >= 0)]
      [] ev.kind = "timeout" ->
           [stdout |-> EmptyText, stderr |-> TimeoutText,
            returncode |-> -1, success |-> FALSE]
      [] ev.kind = "exception" ->
           [stdout |-> EmptyText, stderr |-> ev.msg,
            returncode |-> -1, success |-> FALSE]

_run_command(ev) ==
    CASE ev.kind = "exit" ->
           [stdout |-> ev.out, stderr |-> ev.err,
            returncode |-> ev.rc, success |-> (ev.rc = 0)]
      [] ev.kind = "timeout" ->
           [stdout |-> EmptyText, stderr |-> TimeoutText,
            returncode |-> -1, success |-> FALSE]
      [] ev.kind = "exception" ->
           [stdout |-> EmptyText, stderr |-> ev.msg,
            returncode |-> -1, success |-> FALSE]

\* texts a process may write
OutTexts == {EmptyText, Text("short output", ShortLen), Text("long output", LongLen)}
\* str(e) of the exceptions subprocess.run raises when it cannot launch
LaunchErrors ==
    {Text("[Errno 2] No such file or directory", 35),
     Text("[Errno 13] Permission denied", 28)}
\* exit statuses: success, failures, death by a signal (negative)
ExitCodes == {0, 1, 2, -1, -9}
ProcessEvents ==
    [kind : {"exit"}, rc : ExitCodes, out : OutTexts, err : OutTexts]
    \cup {[kind |-> "timeout"]}
    \cup [kind : {"exception"}, msg : LaunchErrors]

\* the command lines the program runs
Commands == {"golangci-lint", "gofmt", "go vet", "go test", "go tool cover"}

(***************************************************************************)
(* Character sequences and _parse_diff_for_go_files.                       *)
(***************************************************************************)
NL == "\n"
StartsWith(s, p) == Len(s) >= Len(p) /\ SubSeq(s, 1, Len(p)) = p
EndsWith(s, p) == Len(s) >= Len(p) /\ SubSeq(s, Len(s) - Len(p) + 1, Len(s)) = p
\* position of the first c in s, 0 when there is none
Find(s, c) ==
    IF \E i \in 1..Len(s) : s[i] = c
    THEN CHOOSE i \in 1..Len(s) : s[i] = c /\ \A j \in 1..(i - 1) : s[j] # c
    ELSE 0
\* s.split(c)
RECURSIVE Split(_, _)
Split(s, c) ==
    LET i == Find(s, c)
    IN  IF i = 0 THEN <<s>>
        ELSE <<SubSeq(s, 1, i - 1)>> \o Split(SubSeq(s, i + 1, Len(s)), c)
\* c.join(parts)
RECURSIVE Join(_, _)
Join(parts, c) ==
    IF parts = <<>> THEN <<>>
    ELSE IF Len(parts) = 1 THEN parts[1]
    ELSE parts[1] \o <<c>> \o Join(Tail(parts), c)

Plus3 == <<"+", "+", "+">>
DotGo == <<".", "g", "o">>

\* the parser's result: the list, or the exception that left the function
RECURSIVE ParseLines(_, _)
ParseLines(lines, acc) ==
    IF lines = <<>> THEN [exc |-> "", files |-> acc]
    ELSE LET line == Head(lines)
         IN  IF StartsWith(line, Plus3) /\ EndsWith(line, DotGo)
             THEN LET parts == Split(line, " ")
                  IN  IF Len(parts) < 2
                      THEN [exc |-> "IndexError", files |-> <<>>]
                      ELSE ParseLines(Tail(lines),
                                      Append(acc, SubSeq(parts[2], 3, Len(parts[2]))))
             ELSE ParseLines(Tail(lines), acc)

_parse_diff_for_go_files(text) == ParseLines(Split(text, NL), <<>>)

\* lines a diff is built of
LineMain == <<"+", "+", "+", " ", "b", "/", "m", ".", "g", "o">>
LineUtils == <<"+", "+", "+", " ", "b", "/", "u", ".", "g", "o">>
LineNested == <<"+", "+", "+", " ", "b", "/", "p", "/", "a", ".", "g", "o">>
LineReadme == <<"+", "+", "+", " ", "b", "/", "R", ".", "m", "d">>
LineOld == <<"-", "-", "-", " ", "a", "/", "m", ".", "g", "o">>
LineSpace == <<"+", "+", "+", " ", "b", "/", "a", " ", "b", ".", "g", "o">>
LineAdded == <<"+", "+", "+", "x", ".", "g", "o">>
LineContext == <<" ", "x">>
DiffLines == {LineMain, LineUtils, LineNested, LineReadme, LineOld,
              LineSpace, LineAdded, LineContext}

RECURSIVE SeqsUpTo(_, _)
SeqsUpTo(S, n) ==
    IF n = 0 THEN {<<>>}
    ELSE LET shorter == SeqsUpTo(S, n - 1)
         IN  shorter \cup {Append(q, e) : q \in shorter, e \in S}

(***************************************************************************)
(* Drivers of the two pure helpers: the input is drawn, the function is    *)
(* applied once.                                                           *)
(***************************************************************************)
NoEvent == [kind |-> "none"]
NoOutcome ==
    [stdout |-> EmptyText, stderr |-> EmptyText, returncode |-> 0, success |-> TRUE]
NoParse == [exc |-> "", files |-> <<>>]

CmdIdle ==
    /\ cmd_pc = "idle"
    /\ cmd_call = [cmd |-> "", cwd |-> "None", ev |-> NoEvent]
    /\ cmd_result = NoOutcome
DiffIdle ==
    /\ diff_pc = "idle"
    /\ diff_lines = <<>>
    /\ diff_text = <<>>
    /\ diff_result = NoParse
ToolIdle ==
    /\ tool_pc = "idle"
    /\ tool_call = [tool |-> ""]
    /\ tool_result = [exc |-> ""]
NoRuns ==
    /\ runs = {}
    /\ params = <<>>
    /\ pc = <<>>
    /\ review_results = <<>>
    /\ go_files = <<>>
    /\ analysis_results = <<>>
    /\ file_idx = <<>>
    /\ pr_data = <<>>
    /\ calls = <<>>
    /\ raised = <<>>
    /\ returned = <<>>
    /\ existed = <<>>
PipelineIdle ==
    /\ GITHUB_TOKEN = ""
    /\ NoRuns

InitRun ==
    /\ cmd_pc = "ready"
    /\ cmd_call \in [cmd : Commands, cwd : {"None", "dir"}, ev : {NoEvent}]
    /\ cmd_result = NoOutcome
    /\ DiffIdle
    /\ ToolIdle
    /\ PipelineIdle

\* one call of _run_command: subprocess.run behaves as ev
RunCommand ==
    /\ cmd_pc = "ready"
    /\ \E ev \in ProcessEvents :
         /\ cmd_call' = [cmd_call EXCEPT !.ev = ev]
         /\ cmd_result' = _run_command(ev)
    /\ cmd_pc' = "done"
    /\ UNCHANGED <<pipeline_vars, diff_vars, tool_vars>>

NextRun == RunCommand
SpecRun == InitRun /\ [][NextRun]_vars

InitParse ==
    /\ diff_pc = "ready"
    /\ diff_lines \in SeqsUpTo(DiffLines, MaxDiffLines)
    /\ diff_text = Join(diff_lines, NL)
    /\ diff_result = NoParse
    /\ CmdIdle
    /\ ToolIdle
    /\ PipelineIdle

\* one call of _parse_diff_for_go_files
ParseDiff ==
    /\ diff_pc = "ready"
    /\ diff_result' = _parse_diff_for_go_files(diff_text)
    /\ diff_pc' = "done"
    /\ UNCHANGED <<diff_lines, diff_text, pipeline_vars, cmd_vars, tool_vars>>

NextParse == ParseDiff
SpecParse == InitParse /\ [][NextParse]_vars

(***************************************************************************)
(* Platform client and the error payloads of get_pr_diff and               *)
(* post_review_comment.                                                    *)
(***************************************************************************)
\* the except clauses: HTTPStatusError first, any other Exception second
HttpStatusPayload(status) ==
    [error |-> <<"GitHub API error", status>>, message |-> "str(e)", success |-> FALSE]
UnexpectedPayload(exc) ==
    [error |-> <<"Unexpected error", exc>>, message |-> "str(e)", success |-> FALSE]
ErrorPayload(res) ==
    IF res.exc = "HTTPStatusError" THEN HttpStatusPayload(res.status)
    ELSE UnexpectedPayload(res.exc)

\* response.raise_for_status() and what follows it, for a response or a
\* connection failure resp; the client is built without follow_redirects,
\* so a 3xx response is handed to raise_for_status like any other
HttpResult(resp) ==
    CASE resp.kind = "ok" -> [exc |-> "", value |-> resp.body]
      [] resp.kind = "transport" -> [exc |-> "ConnectError"]
      [] OTHER -> [exc |-> "HTTPStatusError", status |-> resp.status]

\* a credential test made only after the request has been sent
GithubRequestTokenCheckedLate(method, resp) ==
    IF method \notin {"GET", "POST"} THEN [exc |-> "ValueError", sent |-> FALSE]
    ELSE IF GITHUB_TOKEN = "" THEN [exc |-> "ValueError", sent |-> TRUE]
    ELSE HttpResult(resp) @@ [sent |-> TRUE]

\* [exc, sent, ...]: sent tells whether an HTTP request left the process
_github_api_request(method, resp) ==
    IF GITHUB_TOKEN = "" THEN [exc |-> "ValueError", sent |-> FALSE]
    ELSE IF method \notin {"GET", "POST"} THEN [exc |-> "ValueError", sent |-> FALSE]
    ELSE HttpResult(resp) @@ [sent |-> TRUE]

PullJson ==
    [diff_url |-> "diff_url", title |-> "title", state |-> "open",
     changed_files |-> 3, additions |-> 10, deletions |-> 2]
PullResponses ==
    {[kind |-> "ok", body |-> PullJson], [kind |-> "redirect", status |-> 301],
     [kind |-> "status", status |-> 404], [kind |-> "transport"]}

\* diffs the platform serves to a review run
DiffNoGo == Join(<<LineOld, LineReadme>>, NL)
DiffOne == Join(<<LineOld, LineMain, LineContext>>, NL)
DiffTwo == Join(<<LineMain, LineUtils, LineReadme>>, NL)
DiffDup == Join(<<LineMain, LineContext, LineMain>>, NL)
DiffBad == Join(<<LineMain, LineAdded>>, NL)
PipelineDiffs == {DiffNoGo, DiffOne, DiffTwo, DiffDup, DiffBad}
DiffResponses ==
    [kind : {"ok"}, body : PipelineDiffs]
    \cup {[kind |-> "redirect", status |-> 302], [kind |-> "status", status |-> 500],
          [kind |-> "transport"]}

ReviewJson == [id |-> 1, state |-> "SUBMITTED", html_url |-> "html_url"]
PostResponses ==
    {[kind |-> "ok", body |-> ReviewJson], [kind |-> "status", status |-> 422],
     [kind |-> "transport"]}

(***************************************************************************)
(* analyze_code.  env is what the file system and the three tools do:      *)
(* exists is "yes", "no" or "oserror": Path.exists and Path.is_file return *)
(* False for ENOENT, ENOTDIR, EBADF and ELOOP only and raise every other   *)
(* OSError of the stat call, such as EACCES for a directory that may not   *)
(* be searched or ENAMETOOLONG for a name the file system refuses.         *)
(***************************************************************************)
CheckOrder == <<"lint", "fmt", "vet">>
\* the three checks taken from the last to the first
ChecksOfReversed(analysis_type) ==
    IF analysis_type = "all" THEN <<"vet", "fmt", "lint">>
    ELSE SelectSeq(CheckOrder, LAMBDA k : k = analysis_type)

ChecksOf(analysis_type) ==
    IF analysis_type = "all" THEN CheckOrder
    ELSE SelectSeq(CheckOrder, LAMBDA k : k = analysis_type)

\* checks that stop at the first one that did not succeed
RECURSIVE RunChecksUntilFailure(_, _, _)
RunChecksUntilFailure(checks, env, acc) ==
    IF checks = <<>> THEN acc
    ELSE LET k == Head(checks)
             outcome == _run_command(env[k])
             next == [results |-> Put(acc.results, k, outcome),
                      procs |-> Append(acc.procs, k)]
         IN  IF outcome.success THEN RunChecksUntilFailure(Tail(checks), env, next)
             ELSE next

\* results dict after the three if-blocks, and the processes launched
RECURSIVE RunChecks(_, _, _)
RunChecks(checks, env, acc) ==
    IF checks = <<>> THEN acc
    ELSE LET k == Head(checks)
         IN  RunChecks(Tail(checks), env,
                       [results |-> Put(acc.results, k, _run_command(env[k])),
                        procs |-> Append(acc.procs, k)])

\* an existence test made only after the checks have run
AnalyzeCodeChecksFirst(file_path, analysis_type, env) ==
    LET done == RunChecks(ChecksOf(analysis_type), env,
                          [results |-> EmptyDict, procs |-> <<>>])
    IN  IF env.exists = "oserror" THEN [exc |-> "OSError", procs |-> done.procs]
        ELSE IF env.exists = "no"
        THEN [exc |-> "",
              value |-> [error |-> <<"Path not found", file_path>>, success |-> FALSE],
              procs |-> done.procs]
        ELSE [exc |-> "", value |-> done.results, procs |-> done.procs]

\* [exc, value, procs]: with response_format JSON
analyze_code(file_path, analysis_type, env) ==
    IF env.exists = "oserror" THEN [exc |-> "OSError", procs |-> <<>>]
    ELSE IF env.exists = "no"
    THEN [exc |-> "",
          value |-> [error |-> <<"Path not found", file_path>>, success |-> FALSE],
          procs |-> <<>>]
    ELSE LET done == RunChecks(ChecksOf(analysis_type), env,
                               [results |-> EmptyDict, procs |-> <<>>])
         IN  [exc |-> "", value |-> done.results, procs |-> done.procs]

(***************************************************************************)
(* Stage 4 of analyze_pr: issues, review body, recommendation.             *)
(***************************************************************************)
DetailLimit == 500
TestsMarker == <<"t", "e", "s", "t", "s">>

\* dict.items() order of one file's "analysis" value
ItemKeys(d) ==
    IF Has(d, "error") THEN <<"error", "success">>
    ELSE SelectSeq(CheckOrder, LAMBDA k : Has(d, k))

\* the inner loop over one file's checks
RECURSIVE FileIssues(_, _)
FileIssues(file_analysis, keys) ==
    IF keys = <<>> THEN <<>>
    ELSE LET check_result == file_analysis.analysis[Head(keys)]
             rest == FileIssues(file_analysis, Tail(keys))
         IN  IF ~check_result.success
             THEN <<[file |-> file_analysis.file,
                     type |-> Head(keys),
                     details |-> IF Truthy(check_result.stdout)
                                 THEN check_result.stdout
                                 ELSE check_result.stderr]>> \o rest
             ELSE rest

\* issues collected from the last analyzed file to the first
RECURSIVE AnalysisIssuesReversed(_)
AnalysisIssuesReversed(entries) ==
    IF entries = <<>> THEN <<>>
    ELSE AnalysisIssuesReversed(Tail(entries))
         \o FileIssues(Head(entries), ItemKeys(Head(entries).analysis))

RECURSIVE AnalysisIssues(_)
AnalysisIssues(entries) ==
    IF entries = <<>> THEN <<>>
    ELSE FileIssues(Head(entries), ItemKeys(Head(entries).analysis))
         \o AnalysisIssues(Tail(entries))

\* a failed test run that adds no issue
TestIssuesDropped(stages) == <<>>

TestIssues(stages) ==
    IF Has(stages, "tests") /\ ~stages["tests"].success
    THEN <<[file |-> TestsMarker, type |-> "test_failure",
            details |-> stages["tests"].stderr]>>
    ELSE <<>>

IssuesFound(stages) ==
    (IF Has(stages, "analysis") THEN AnalysisIssues(stages["analysis"]) ELSE <<>>)
    \o TestIssues(stages)

\* check_result.get on the string under the "error" key of a path-not-found
\* payload raises AttributeError
AggregationRaises(stages) ==
    /\ Has(stages, "analysis")
    /\ \E i \in 1..Len(stages["analysis"]) : Has(stages["analysis"][i].analysis, "error")

ReviewBody(issues_found) ==
    IF issues_found # <<>>
    THEN [kind |-> "issues", found |-> Len(issues_found),
          items |-> [i \in 1..Len(issues_found) |->
                       [no |-> i, type |-> issues_found[i].type,
                        file |-> issues_found[i].file,
                        details |-> Prefix(issues_found[i].details, DetailLimit)]],
          trailing_newline |-> TRUE]
    ELSE [kind |-> "clean", trailing_newline |-> TRUE]

Recommendation(issues_found) ==
    IF issues_found # <<>> THEN "REQUEST_CHANGES" ELSE "APPROVE"

\* an aggregation that adds to the issues a previous pass has left
AggregatedAccumulating(rr) ==
    LET issues_found == (IF Has(rr, "issues") THEN rr["issues"] ELSE <<>>)
                        \o IssuesFound(rr.stages)
        rr1 == Put(rr, "issues_found", Len(issues_found))
        rr2 == Put(rr1, "issues", issues_found)
        rr3 == Put(rr2, "review_body", ReviewBody(issues_found))
    IN  Put(rr3, "recommendation", Recommendation(issues_found))

\* review_results after lines 667-713
Aggregated(rr) ==
    LET issues_found == IssuesFound(rr.stages)
        rr1 == Put(rr, "issues_found", Len(issues_found))
        rr2 == Put(rr1, "issues", issues_found)
        rr3 == Put(rr2, "review_body", ReviewBody(issues_found))
    IN  Put(rr3, "recommendation", Recommendation(issues_found))

(***************************************************************************)
(* The comprehensive review, analyze_pr, one action per external call or   *)
(* stage.                                                                  *)
(***************************************************************************)
NoPath == "<None>"
LocalPaths == {NoPath, "", "/repo"}
\* truthiness of params.local_path
PathGiven(local_path) == local_path \notin {NoPath, ""}

ParamsOf(r) ==
    [pr_number : {r}, local_path : LocalPaths, run_tests : BOOLEAN,
     post_comments : BOOLEAN, response_format : {"json", "markdown"}]

\* what a tool run does during a review
EvClean == [kind |-> "exit", rc |-> 0, out |-> EmptyText, err |-> EmptyText]
EvListed ==
    [kind |-> "exit", rc |-> 0, out |-> Text("short output", ShortLen), err |-> EmptyText]
EvFailed ==
    [kind |-> "exit", rc |-> 1, out |-> Text("long output", LongLen), err |-> EmptyText]
EvTimeout == [kind |-> "timeout"]
\* a check tool: clean, zero exit with output, failure with long output
CheckEvents == {EvClean, EvListed, EvFailed}
\* the test tool: pass, failure, timeout
TestEvents == {EvClean, EvFailed, EvTimeout}
ExistsOutcomes == {"yes", "no", "oserror"}
AnalyzeEnvs ==
    [exists : ExistsOutcomes, lint : CheckEvents, fmt : CheckEvents,
     vet : CheckEvents]

\* what the environment may answer to a run.  A single run meets every
\* answer; runs that share the process meet two answers per call, a good
\* and a bad one, so that the product of their states stays small
Shared == Cardinality(runs) > 1
PullAnswers ==
    IF Shared THEN {[kind |-> "ok", body |-> PullJson], [kind |-> "status", status |-> 404]}
    ELSE PullResponses
DiffAnswers ==
    IF Shared THEN {[kind |-> "ok", body |-> DiffOne], [kind |-> "status", status |-> 500]}
    ELSE DiffResponses
SeenAnswers == IF Shared THEN {"yes", "no"} ELSE ExistsOutcomes
AnalyzeAnswers ==
    IF Shared
    THEN [exists : {"yes"}, lint : {EvClean, EvFailed}, fmt : {EvClean}, vet : {EvClean}]
    ELSE AnalyzeEnvs
TestAnswers == IF Shared THEN {EvClean, EvFailed} ELSE TestEvents
PostAnswers ==
    IF Shared THEN {[kind |-> "ok", body |-> ReviewJson], [kind |-> "status", status |-> 422]}
    ELSE PostResponses

ExcText(exc) ==
    CASE exc = "OSError" -> "[Errno 13] Permission denied"
      [] exc = "AttributeError" -> "'str' object has no attribute 'get'"
      [] OTHER -> exc

SetStage(rr, key, value) == [rr EXCEPT !["stages"] = Put(rr["stages"], key, value)]

\* json.dumps(review_results) or, at the end of a markdown run, review_body
JsonReturn(rr) == [format |-> "json", value |-> rr]
FinalReturn(p, rr) ==
    IF p.response_format = "json" THEN JsonReturn(rr)
    ELSE [format |-> "markdown", value |-> rr["review_body"]]

InitPipeline(R) ==
    /\ GITHUB_TOKEN \in {"", "token"}
    /\ runs = R
    /\ params \in {f \in [R -> UNION {ParamsOf(r) : r \in R}] :
                     \A r \in R : f[r].pr_number = r}
    /\ pc = [r \in R |-> "get_pr"]
    /\ review_results =
         [r \in R |-> [pr_number |-> params[r].pr_number,
                       timestamp |-> "loop.time()",
                       stages |-> EmptyDict]]
    /\ go_files = [r \in R |-> <<>>]
    /\ analysis_results = [r \in R |-> <<>>]
    /\ file_idx = [r \in R |-> 1]
    /\ pr_data = [r \in R |-> EmptyDict]
    /\ calls = [r \in R |-> <<>>]
    /\ raised = [r \in R |-> <<>>]
    /\ returned = [r \in R |-> [format |-> "none"]]
    /\ existed = [r \in R |-> <<>>]
    /\ CmdIdle
    /\ DiffIdle
    /\ ToolIdle

Init == InitPipeline({1})

\* a failed fetch that is recorded but does not end the run
FetchFailedGoesOn(r, payload, sent) ==
    /\ review_results' = [review_results EXCEPT ![r] = SetStage(@, "diff", payload)]
    /\ pc' = [pc EXCEPT ![r] = "analyze"]
    /\ calls' = [calls EXCEPT ![r] = @ \o sent]
    /\ UNCHANGED <<cmd_vars, diff_vars, tool_vars, existed, GITHUB_TOKEN, runs, params, go_files,
                   analysis_results, file_idx, pr_data, raised, returned>>

\* a failed fetch that sends the run back to its first request
FetchFailedRetries(r, payload, sent) ==
    /\ review_results' = [review_results EXCEPT ![r] = SetStage(@, "diff", payload)]
    /\ pc' = [pc EXCEPT ![r] = "get_pr"]
    /\ UNCHANGED <<cmd_vars, diff_vars, tool_vars, existed, GITHUB_TOKEN, runs, params, go_files,
                   analysis_results, file_idx, pr_data, calls, raised, returned>>

\* lines 626-630 when get_pr_diff returned an error payload
FetchFailed(r, payload, sent) ==
    LET rr == SetStage(review_results[r], "diff", payload)
    IN  /\ review_results' = [review_results EXCEPT ![r] = rr]
        /\ returned' = [returned EXCEPT ![r] = JsonReturn(rr)]
        /\ pc' = [pc EXCEPT ![r] = "done"]
        /\ calls' = [calls EXCEPT ![r] = @ \o sent]
        /\ UNCHANGED <<cmd_vars, diff_vars, tool_vars, existed, GITHUB_TOKEN, runs, params, go_files, analysis_results,
                       file_idx, pr_data, raised>>

\* a handler that answers with the error alone
RaiseDroppingResults(r, exc, stage) ==
    LET rr == [error |-> ExcText(exc)]
    IN  /\ review_results' = [review_results EXCEPT ![r] = rr]
        /\ returned' = [returned EXCEPT ![r] = JsonReturn(rr)]
        /\ pc' = [pc EXCEPT ![r] = "done"]
        /\ raised' = [raised EXCEPT ![r] = Append(@, [exc |-> exc, stage |-> stage])]
        /\ UNCHANGED <<cmd_vars, diff_vars, tool_vars, existed, GITHUB_TOKEN, runs, params, go_files,
                       analysis_results, file_idx, pr_data, calls>>

\* the except clause of analyze_pr, lines 732-734
Raise(r, exc, stage) ==
    LET rr == Put(review_results[r], "error", ExcText(exc))
    IN  /\ review_results' = [review_results EXCEPT ![r] = rr]
        /\ returned' = [returned EXCEPT ![r] = JsonReturn(rr)]
        /\ pc' = [pc EXCEPT ![r] = "done"]
        /\ raised' = [raised EXCEPT ![r] = Append(@, [exc |-> exc, stage |-> stage])]
        /\ UNCHANGED <<cmd_vars, diff_vars, tool_vars, existed, GITHUB_TOKEN, runs, params, go_files, analysis_results,
                       file_idx, pr_data, calls>>

\* stage 1, first await of get_pr_diff: the pull request's metadata
GetPRData(r) ==
    /\ pc[r] = "get_pr"
    /\ \E resp \in PullAnswers :
         LET res == _github_api_request("GET", resp)
             sent == IF res.sent THEN <<[op |-> "GET", target |-> "pull"]>> ELSE <<>>
         IN  IF res.exc # ""
             THEN FetchFailed(r, ErrorPayload(res), sent)
             ELSE /\ pr_data' = [pr_data EXCEPT ![r] = res.value]
                  /\ pc' = [pc EXCEPT ![r] = "get_diff"]
                  /\ calls' = [calls EXCEPT ![r] = @ \o sent]
                  /\ UNCHANGED <<cmd_vars, diff_vars, tool_vars, existed, GITHUB_TOKEN, runs, params, review_results, go_files,
                                 analysis_results, file_idx, raised, returned>>

\* the result dict of get_pr_diff (lines 466-478), or the error payload,
\* once the diff request has ended as res
DiffResultOf(pr_number, data, res) ==
    IF res.exc # "" THEN ErrorPayload(res)
    ELSE LET parsed == _parse_diff_for_go_files(res.value)
         IN  IF parsed.exc # "" THEN UnexpectedPayload(parsed.exc)
             ELSE [pr_number |-> pr_number,
                   title |-> data.title,
                   state |-> data.state,
                   changed_files |-> data.changed_files,
                   additions |-> data.additions,
                   deletions |-> data.deletions,
                   go_files_changed |-> parsed.files,
                   diff |-> res.value]

\* what get_pr_diff returns (JSON format) to run r
DiffResult(r, res) == DiffResultOf(params[r].pr_number, pr_data[r], res)

\* stage 1, second await of get_pr_diff: the raw diff, then lines 626-632
GetDiffText(r) ==
    /\ pc[r] = "get_diff"
    /\ \E resp \in DiffAnswers :
         LET diff_result_r == DiffResult(r, HttpResult(resp))
             sent == <<[op |-> "GET", target |-> "diff_url"]>>
         IN  IF Has(diff_result_r, "error")
             THEN FetchFailed(r, diff_result_r, sent)
             ELSE /\ review_results' =
                       [review_results EXCEPT ![r] = SetStage(@, "diff", diff_result_r)]
                  /\ go_files' = [go_files EXCEPT ![r] = diff_result_r.go_files_changed]
                  /\ pc' = [pc EXCEPT ![r] = "analyze"]
                  /\ calls' = [calls EXCEPT ![r] = @ \o sent]
                  /\ UNCHANGED <<cmd_vars, diff_vars, tool_vars, existed, GITHUB_TOKEN, runs, params, analysis_results,
                                 file_idx, pr_data, raised, returned>>

AnalyzeWanted(r) == PathGiven(params[r].local_path) /\ go_files[r] # <<>>

ProcCalls(procs, file_path) ==
    [i \in 1..Len(procs) |-> [op |-> "run", target |-> procs[i], path |-> file_path]]

\* a loop that reports a listed file missing locally as a failed check
AnalyzeFileReportingMissing(r) ==
    /\ pc[r] = "analyze"
    /\ AnalyzeWanted(r)
    /\ file_idx[r] <= Len(go_files[r])
    /\ LET go_file == go_files[r][file_idx[r]]
           file_path == <<params[r].local_path, go_file>>
       IN  \E seen \in SeenAnswers :
             CASE seen = "oserror" -> Raise(r, "OSError", "analysis")
               [] seen = "no" ->
                    /\ file_idx' = [file_idx EXCEPT ![r] = @ + 1]
                    /\ existed' = [existed EXCEPT ![r] = Append(@, "no")]
                    /\ analysis_results' =
                         [analysis_results EXCEPT ![r] =
                            Append(@, [file |-> go_file,
                                       analysis |->
                                         [lint |-> _run_command(
                                            [kind |-> "exception",
                                             msg |-> Text("[Errno 2] No such file or directory", 35)])]])]
                    /\ UNCHANGED <<cmd_vars, diff_vars, tool_vars, GITHUB_TOKEN, runs, params, pc, review_results,
                                   go_files, pr_data, calls,
                                   raised, returned>>
               [] seen = "yes" ->
                    \E env \in AnalyzeAnswers :
                      LET result == analyze_code(file_path, "all", env)
                      IN  IF result.exc # ""
                          THEN Raise(r, result.exc, "analysis")
                          ELSE /\ analysis_results' =
                                    [analysis_results EXCEPT ![r] =
                                       Append(@, [file |-> go_file,
                                                  analysis |-> result.value])]
                               /\ calls' = [calls EXCEPT ![r] =
                                              @ \o ProcCalls(result.procs, file_path)]
                               /\ file_idx' = [file_idx EXCEPT ![r] = @ + 1]
                               /\ existed' = [existed EXCEPT ![r] = Append(@, "yes")]
                               /\ UNCHANGED <<cmd_vars, diff_vars, tool_vars, GITHUB_TOKEN, runs, params, pc,
                                              review_results, go_files, pr_data,
                                              raised, returned>>

\* stage 2, one turn of the loop over go_files (lines 637-649)
AnalyzeFile(r) ==
    /\ pc[r] = "analyze"
    /\ AnalyzeWanted(r)
    /\ file_idx[r] <= Len(go_files[r])
    /\ LET go_file == go_files[r][file_idx[r]]
           file_path == <<params[r].local_path, go_file>>
       IN  \E seen \in SeenAnswers :
             CASE seen = "oserror" -> Raise(r, "OSError", "analysis")
               [] seen = "no" ->
                    /\ file_idx' = [file_idx EXCEPT ![r] = @ + 1]
                    /\ existed' = [existed EXCEPT ![r] = Append(@, "no")]
                    /\ UNCHANGED <<cmd_vars, diff_vars, tool_vars, GITHUB_TOKEN, runs, params, pc, review_results,
                                   go_files, analysis_results, pr_data, calls,
                                   raised, returned>>
               [] seen = "yes" ->
                    \E env \in AnalyzeAnswers :
                      LET result == analyze_code(file_path, "all", env)
                      IN  IF result.exc # ""
                          THEN Raise(r, result.exc, "analysis")
                          ELSE /\ analysis_results' =
                                    [analysis_results EXCEPT ![r] =
                                       Append(@, [file |-> go_file,
                                                  analysis |-> result.value])]
                               /\ calls' = [calls EXCEPT ![r] =
                                              @ \o ProcCalls(result.procs, file_path)]
                               /\ file_idx' = [file_idx EXCEPT ![r] = @ + 1]
                               /\ existed' = [existed EXCEPT ![r] = Append(@, "yes")]
                               /\ UNCHANGED <<cmd_vars, diff_vars, tool_vars, GITHUB_TOKEN, runs, params, pc,
                                              review_results, go_files, pr_data,
                                              raised, returned>>

\* stage 2, after the loop (line 650)
FinishAnalyze(r) ==
    /\ pc[r] = "analyze"
    /\ AnalyzeWanted(r)
    /\ file_idx[r] > Len(go_files[r])
    /\ review_results' =
         [review_results EXCEPT ![r] = SetStage(@, "analysis", analysis_results[r])]
    /\ pc' = [pc EXCEPT ![r] = "tests"]
    /\ UNCHANGED <<cmd_vars, diff_vars, tool_vars, existed, GITHUB_TOKEN, runs, params, go_files, analysis_results, file_idx,
                   pr_data, calls, raised, returned>>

\* stage 2 not entered (line 635 false)
SkipAnalyze(r) ==
    /\ pc[r] = "analyze"
    /\ ~AnalyzeWanted(r)
    /\ pc' = [pc EXCEPT ![r] = "tests"]
    /\ UNCHANGED <<cmd_vars, diff_vars, tool_vars, existed, GITHUB_TOKEN, runs, params, review_results, go_files,
                   analysis_results, file_idx, pr_data, calls, raised, returned>>

\* the test stage gated on the request alone
TestsWantedWithoutPath(r) == params[r].run_tests

TestsWanted(r) == params[r].run_tests /\ PathGiven(params[r].local_path)

\* stage 3 (lines 653-665)
RunTests(r) ==
    /\ pc[r] = "tests"
    /\ TestsWanted(r)
    /\ \E ev \in TestAnswers :
         review_results' =
           [review_results EXCEPT ![r] = SetStage(@, "tests", _run_command(ev))]
    /\ calls' = [calls EXCEPT ![r] =
                   Append(@, [op |-> "run", target |-> "test",
                              path |-> params[r].local_path])]
    /\ pc' = [pc EXCEPT ![r] = "aggregate"]
    /\ UNCHANGED <<cmd_vars, diff_vars, tool_vars, existed, GITHUB_TOKEN, runs, params, go_files, analysis_results, file_idx,
                   pr_data, raised, returned>>

SkipTests(r) ==
    /\ pc[r] = "tests"
    /\ ~TestsWanted(r)
    /\ pc' = [pc EXCEPT ![r] = "aggregate"]
    /\ UNCHANGED <<cmd_vars, diff_vars, tool_vars, existed, GITHUB_TOKEN, runs, params, review_results, go_files,
                   analysis_results, file_idx, pr_data, calls, raised, returned>>

\* an aggregation whose issue list is one list shared by all runs
AggregateSharedIssues(r) ==
    /\ pc[r] = "aggregate"
    /\ IF AggregationRaises(review_results[r]["stages"])
       THEN Raise(r, "AttributeError", "aggregate")
       ELSE LET rr == Aggregated(review_results[r])
            IN  /\ review_results' =
                     [q \in runs |-> IF q = r THEN rr
                                     ELSE Put(review_results[q], "issues", rr["issues"])]
                /\ IF params[r].post_comments
                   THEN /\ pc' = [pc EXCEPT ![r] = "publish"]
                        /\ UNCHANGED returned
                   ELSE /\ pc' = [pc EXCEPT ![r] = "done"]
                        /\ returned' = [returned EXCEPT ![r] = FinalReturn(params[r], rr)]
                /\ UNCHANGED <<cmd_vars, diff_vars, tool_vars, existed, GITHUB_TOKEN, runs, params, go_files, analysis_results,
                               file_idx, pr_data, calls, raised>>

\* stage 4 (lines 667-713), and the return of a run that does not publish
Aggregate(r) ==
    /\ pc[r] = "aggregate"
    /\ IF AggregationRaises(review_results[r]["stages"])
       THEN Raise(r, "AttributeError", "aggregate")
       ELSE LET rr == Aggregated(review_results[r])
            IN  /\ review_results' = [review_results EXCEPT ![r] = rr]
                /\ IF params[r].post_comments
                   THEN /\ pc' = [pc EXCEPT ![r] = "publish"]
                        /\ UNCHANGED returned
                   ELSE /\ pc' = [pc EXCEPT ![r] = "done"]
                        /\ returned' = [returned EXCEPT ![r] = FinalReturn(params[r], rr)]
                /\ UNCHANGED <<cmd_vars, diff_vars, tool_vars, existed, GITHUB_TOKEN, runs, params, go_files, analysis_results,
                               file_idx, pr_data, calls, raised>>

\* an input model that keeps the body as given
StripNothing(body) == body

\* str_strip_whitespace of PostReviewCommentInput, applied to body
Strip(body) == [body EXCEPT !.trailing_newline = FALSE]

\* [payload, sent] for the request body/event and the platform's answer resp
post_review_comment(body, event, resp) ==
    LET review_data == [body |-> Strip(body), event |-> event]
        res == _github_api_request("POST", resp)
    IN  [payload |->
           IF res.exc # "" THEN ErrorPayload(res)
           ELSE [success |-> TRUE, review_id |-> res.value.id,
                 state |-> res.value.state, html_url |-> res.value.html_url,
                 message |-> "Review posted successfully"],
         sent |-> IF res.sent
                  THEN <<[op |-> "POST", target |-> "reviews", data |-> review_data]>>
                  ELSE <<>>]

\* a publish failure also recorded as the run's terminal error
PublishedAsTerminalError(rr, payload) ==
    IF Has(payload, "error")
    THEN Put(SetStage(rr, "posted_review", payload), "error", payload.message)
    ELSE SetStage(rr, "posted_review", payload)

\* line 725
Published(rr, payload) == SetStage(rr, "posted_review", payload)

\* stage 5 (lines 716-725) and the final return
Publish(r) ==
    /\ pc[r] = "publish"
    /\ \E resp \in PostAnswers :
         LET post == post_review_comment(review_results[r]["review_body"],
                                         review_results[r]["recommendation"], resp)
             rr == Published(review_results[r], post.payload)
         IN  /\ review_results' = [review_results EXCEPT ![r] = rr]
             /\ calls' = [calls EXCEPT ![r] = @ \o post.sent]
             /\ returned' = [returned EXCEPT ![r] = FinalReturn(params[r], rr)]
    /\ pc' = [pc EXCEPT ![r] = "done"]
    /\ UNCHANGED <<cmd_vars, diff_vars, tool_vars, existed, GITHUB_TOKEN, runs, params, go_files, analysis_results, file_idx,
                   pr_data, raised>>

Next ==
    \/ \E r \in runs : GetPRData(r)
    \/ \E r \in runs : GetDiffText(r)
    \/ \E r \in runs : AnalyzeFile(r)
    \/ \E r \in runs : FinishAnalyze(r)
    \/ \E r \in runs : SkipAnalyze(r)
    \/ \E r \in runs : RunTests(r)
    \/ \E r \in runs : SkipTests(r)
    \/ \E r \in runs : Aggregate(r)
    \/ \E r \in runs : Publish(r)

Spec == Init /\ [][Next]_vars

\* a run whose every call returns: the event loop resumes the coroutine
\* after each await, the requests and the processes are bounded by their
\* timeouts (30 s at line 282, httpx's default at line 458, 300 s at line
\* 181), so a step that can be taken is taken
\* the response format decides only the shape of the value returned at
\* lines 727-730; the runs are taken with the JSON format
InitLive ==
    /\ Init
    /\ \A r \in runs : params[r].response_format = "json"
SpecLive == InitLive /\ [][Next]_vars /\ WF_vars(Next)

\* two review runs of different pull requests in one process, their steps
\* interleaved; the steps between two awaits of a run are separate actions
\* here, which allows every interleaving the event loop allows and more
TwoRunParams ==
    [pr_number : {1, 2}, local_path : {NoPath, "/repo"}, run_tests : BOOLEAN,
     post_comments : BOOLEAN, response_format : {"json"}]
InitTwo ==
    /\ InitPipeline({1, 2})
    /\ \A r \in {1, 2} : params[r] \in TwoRunParams
SpecTwo == InitTwo /\ [][Next]_vars

(***************************************************************************)
(* The tools called on their own: analyze_code, run_tests, get_pr_diff and *)
(* post_review_comment.  One call is drawn, the environment answers, the   *)
(* tool returns or raises.                                                 *)
(***************************************************************************)
EvLaunch ==
    [kind |-> "exception", msg |-> Text("[Errno 2] No such file or directory", 35)]
\* a tool run: clean, zero exit with output, failure, timeout, no launch
ToolEvents == {EvClean, EvListed, EvFailed, EvTimeout, EvLaunch}
ToolEnvs ==
    [exists : ExistsOutcomes, lint : ToolEvents, fmt : ToolEvents, vet : ToolEvents]

\* a format section that is clean whenever gofmt exits with zero
SectionCleanOnSuccess(k, outcome) == outcome.success

\* the if-tests of the three sections of _format_markdown_analysis
SectionClean(k, outcome) ==
    IF k = "fmt" THEN outcome.success /\ ~Truthy(outcome.stdout)
    ELSE outcome.success

\* the text a section shows when it is not clean
SectionShown(k, outcome) ==
    IF k = "vet" THEN outcome.stderr ELSE outcome.stdout

\* the sections after the title, one per key present, in the order of the
\* three if-blocks
_format_markdown_analysis(results) ==
    LET present == SelectSeq(CheckOrder, LAMBDA k : Has(results, k))
    IN  [i \in 1..Len(present) |->
           LET k == present[i]
           IN  IF SectionClean(k, results[k])
               THEN [section |-> k, clean |-> TRUE, shown |-> EmptyText]
               ELSE [section |-> k, clean |-> FALSE,
                     shown |-> SectionShown(k, results[k])]]

\* the tool analyze_code with its response format: [exc, value, procs];
\* the path-not-found payload is JSON whatever the format
AnalyzeCodeTool(p, env) ==
    LET res == analyze_code(p.file_path, p.analysis_type, env)
    IN  IF res.exc # "" THEN res
        ELSE IF Has(res.value, "error") \/ p.response_format = "json"
        THEN [res EXCEPT !.value = [format |-> "json", data |-> res.value]]
        ELSE [res EXCEPT !.value =
                [format |-> "markdown", data |-> res.value,
                 sections |-> _format_markdown_analysis(res.value)]]

CoverCmd == <<"go", "tool", "cover", "-func=coverage.out">>
TestCmd(p) ==
    <<"go", "test">>
    \o (IF p.verbose THEN <<"-v">> ELSE <<>>)
    \o (IF p.coverage THEN <<"-coverprofile=coverage.out", "-covermode=atomic">>
        ELSE <<>>)
    \o <<p.package_path>>

\* sections of _format_test_results_markdown after the title
_format_test_results_markdown(result, coverage) ==
    <<[section |-> "verdict", passed |-> result.success],
      [section |-> "output", shown |-> result.stdout]>>
    \o (IF Truthy(result.stderr)
        THEN <<[section |-> "errors", shown |-> result.stderr]>> ELSE <<>>)
    \o (IF coverage /\ Has(result, "coverage")
        THEN <<[section |-> "coverage", shown |-> result.coverage]>> ELSE <<>>)

\* a coverage summary asked for after every test run, failed ones too
CoverageWantedAlways(p, test_result) == p.coverage

\* line 414
CoverageWanted(p, test_result) == p.coverage /\ test_result.success

\* the tool run_tests: env.test and env.cover are what the two processes do
run_tests(p, env) ==
    LET test_result == _run_command(env.test)
        covered == CoverageWanted(p, test_result)
        result == IF covered
                  THEN test_result @@ [coverage |-> _run_command(env.cover).stdout]
                  ELSE test_result
    IN  [exc |-> "",
         value |-> IF p.response_format = "json"
                   THEN [format |-> "json", data |-> result]
                   ELSE [format |-> "markdown", data |-> result,
                         sections |-> _format_test_results_markdown(result, p.coverage)],
         procs |-> <<TestCmd(p)>> \o (IF covered THEN <<CoverCmd>> ELSE <<>>)]

\* diff_content[:5000] and the ellipsis of the markdown answer
DiffShown == 5000
Shorten(text) ==
    [text |-> SubSeq(text, 1, IF Len(text) < DiffShown THEN Len(text) ELSE DiffShown),
     ellipsis |-> Len(text) > DiffShown]

\* the tool get_pr_diff: pull and diff are the answers to its two requests
get_pr_diff(p, pull, diff) ==
    LET res == _github_api_request("GET", pull)
        first == IF res.sent THEN <<[op |-> "GET", target |-> "pull"]>> ELSE <<>>
    IN  IF res.exc # ""
        THEN [exc |-> "", value |-> [format |-> "json", data |-> ErrorPayload(res)],
              sent |-> first]
        ELSE LET result == DiffResultOf(p.pr_number, res.value, HttpResult(diff))
             IN  [exc |-> "",
                  value |->
                    IF Has(result, "error") \/ p.response_format = "json"
                    THEN [format |-> "json", data |-> result]
                    ELSE [format |-> "markdown",
                          data |-> [result EXCEPT !.diff = Shorten(@)]],
                  sent |-> Append(first, [op |-> "GET", target |-> "diff_url"])]

\* the tool post_review_comment, which answers in JSON only
PostReviewTool(p, resp) ==
    LET out == post_review_comment(p.body, p.event, resp)
    IN  [exc |-> "", value |-> [format |-> "json", data |-> out.payload],
         sent |-> out.sent]

AnalyzeCodeCalls ==
    [tool : {"analyze_code"}, file_path : {"/repo/main.go"},
     analysis_type : {"lint", "fmt", "vet", "all"},
     response_format : {"json", "markdown"}]
RunTestsCalls ==
    [tool : {"run_tests"}, package_path : {"./..."}, verbose : BOOLEAN,
     coverage : BOOLEAN, response_format : {"json", "markdown"}]
CoverEvents == {EvListed, EvFailed, EvLaunch}

GetPRDiffCalls ==
    [tool : {"get_pr_diff"}, pr_number : {1}, response_format : {"json", "markdown"}]
PostReviewCalls ==
    [tool : {"post_review_comment"},
     body : [kind : {"text"}, trailing_newline : BOOLEAN],
     event : {"COMMENT", "APPROVE", "REQUEST_CHANGES"}]

InitTools ==
    /\ GITHUB_TOKEN \in {"", "token"}
    /\ tool_pc = "ready"
    /\ tool_call \in AnalyzeCodeCalls \cup RunTestsCalls \cup GetPRDiffCalls
                     \cup PostReviewCalls
    /\ tool_result = [exc |-> ""]
    /\ NoRuns
    /\ CmdIdle
    /\ DiffIdle

CallAnalyzeCode ==
    /\ tool_pc = "ready"
    /\ tool_call.tool = "analyze_code"
    /\ \E env \in ToolEnvs :
         tool_result' = AnalyzeCodeTool(tool_call, env) @@ [sent |-> <<>>, env |-> env]
    /\ tool_pc' = "done"
    /\ UNCHANGED <<tool_call, pipeline_vars, cmd_vars, diff_vars>>

CallRunTests ==
    /\ tool_pc = "ready"
    /\ tool_call.tool = "run_tests"
    /\ \E env \in [test : ToolEvents, cover : CoverEvents] :
         tool_result' = run_tests(tool_call, env) @@ [sent |-> <<>>, env |-> env]
    /\ tool_pc' = "done"
    /\ UNCHANGED <<tool_call, pipeline_vars, cmd_vars, diff_vars>>

CallGetPRDiff ==
    /\ tool_pc = "ready"
    /\ tool_call.tool = "get_pr_diff"
    /\ \E pull \in PullResponses, diff \in DiffResponses :
         tool_result' = get_pr_diff(tool_call, pull, diff)
                        @@ [procs |-> <<>>, env |-> [pull |-> pull, diff |-> diff]]
    /\ tool_pc' = "done"
    /\ UNCHANGED <<tool_call, pipeline_vars, cmd_vars, diff_vars>>

CallPostReview ==
    /\ tool_pc = "ready"
    /\ tool_call.tool = "post_review_comment"
    /\ \E resp \in PostResponses :
         tool_result' = PostReviewTool(tool_call, resp)
                        @@ [procs |-> <<>>, env |-> [post |-> resp]]
    /\ tool_pc' = "done"
    /\ UNCHANGED <<tool_call, pipeline_vars, cmd_vars, diff_vars>>

NextTools ==
    \/ CallAnalyzeCode
    \/ CallRunTests
    \/ CallGetPRDiff
    \/ CallPostReview

SpecTools == InitTools /\ [][NextTools]_vars

\* the five tools together: a tool called on its own or a review run
InitAll == InitTools \/ Init
NextAll == NextTools \/ Next
SpecAll == InitAll /\ [][NextAll]_vars

(***************************************************************************)
(* Vocabulary of the properties.                                           *)
(***************************************************************************)
Stages(r) == review_results[r]["stages"]
FetchSucceeded(r) == Has(Stages(r), "diff") /\ ~Has(Stages(r)["diff"], "error")
FetchErrored(r) == Has(Stages(r), "diff") /\ Has(Stages(r)["diff"], "error")
ProcessCalls(r) == {i \in 1..Len(calls[r]) : calls[r][i].op = "run"}
PostCalls(r) == {i \in 1..Len(calls[r]) : calls[r][i].op = "POST"}
TestCalls(r) == {i \in ProcessCalls(r) : calls[r][i].target = "test"}

\* positions <<entry, check>> of the check outcomes with success = false
FailedChecks(stages) ==
    IF Has(stages, "analysis")
    THEN {e \in (1..Len(stages["analysis"])) \X (1..3) :
            LET a == stages["analysis"][e[1]].analysis
            IN  Has(a, CheckOrder[e[2]]) /\ ~a[CheckOrder[e[2]]].success}
    ELSE {}
TestFailed(stages) == Has(stages, "tests") /\ ~stages["tests"].success
Before(a, b) == a[1] < b[1] \/ (a[1] = b[1] /\ a[2] < b[2])
Rank(F, e) == 1 + Cardinality({f \in F : Before(f, e)})

(***************************************************************************)
(* C1: once aggregation has run, the issue count is the number of check    *)
(* outcomes with success = false over all analyzed files, plus one when    *)
(* the test outcome has success = false; the verdict is REQUEST_CHANGES    *)
(* exactly when the count is positive and APPROVE otherwise, never         *)
(* COMMENT.                                                                *)
(***************************************************************************)
C1_AggregationCount ==
    \A r \in runs :
      /\ (pc[r] \in {"publish", "done"} /\ FetchSucceeded(r) /\ raised[r] = <<>>)
           => Has(review_results[r], "issues_found")
      /\ Has(review_results[r], "issues_found") =>
           LET rr == review_results[r]
               n == Cardinality(FailedChecks(rr["stages"]))
                    + (IF TestFailed(rr["stages"]) THEN 1 ELSE 0)
           IN  /\ rr["issues_found"] = n
               /\ Has(rr, "recommendation")
               /\ rr["recommendation"] \in {"REQUEST_CHANGES", "APPROVE"}
               /\ (rr["recommendation"] = "REQUEST_CHANGES") <=> (n > 0)

C1_Witness ==
    \E r \in runs :
      /\ Has(review_results[r], "issues_found")
      /\ FailedChecks(Stages(r)) # {}
      /\ TestFailed(Stages(r))
      /\ review_results[r]["issues_found"] >= 3
      /\ review_results[r]["recommendation"] = "REQUEST_CHANGES"

(***************************************************************************)
(* C2: a failed fetch ends the run: no analysis or test process is         *)
(* launched, no review is posted, and the value returned is the result     *)
(* with the error under the diff stage and without issues, verdict or      *)
(* review body.                                                            *)
(***************************************************************************)
C2_FetchFailureStops ==
    \A r \in runs :
      FetchErrored(r) =>
        /\ pc[r] = "done"
        /\ ProcessCalls(r) = {}
        /\ PostCalls(r) = {}
        /\ returned[r] = JsonReturn(review_results[r])
        /\ DOMAIN Stages(r) = {"diff"}
        /\ DOMAIN review_results[r] = {"pr_number", "timestamp", "stages"}

C2_Witness ==
    \E r \in runs :
      /\ FetchErrored(r)
      /\ calls[r] # <<>>
      /\ params[r].local_path = "/repo"
      /\ params[r].run_tests
      /\ params[r].post_comments
      /\ returned[r].format = "json"

(***************************************************************************)
(* C3: in a finished run whose fetch succeeded, the analysis entry is      *)
(* recorded iff a local path was supplied and the diff listed a matching   *)
(* file, the test tool was run iff tests were requested and a local path   *)
(* was supplied, and the review was posted iff publication was requested.  *)
(***************************************************************************)
C3_StagesAttemptedIff ==
    \A r \in runs :
      (pc[r] = "done" /\ FetchSucceeded(r)) =>
        /\ Has(Stages(r), "analysis")
             <=> (PathGiven(params[r].local_path)
                  /\ Stages(r)["diff"].go_files_changed # <<>>)
        /\ (TestCalls(r) # {})
             <=> (params[r].run_tests /\ PathGiven(params[r].local_path))
        /\ Has(Stages(r), "posted_review") <=> params[r].post_comments

(***************************************************************************)
(* C4: the stage entries present are exactly the stages whose attempt has  *)
(* ended, and a stage that was attempted and failed is present with an     *)
(* explicit error/success field.  (That an entry once written is never     *)
(* removed or overwritten is StagesAppendOnly.)                            *)
(***************************************************************************)
AnalysisEnded(r) ==
    /\ FetchSucceeded(r)
    /\ PathGiven(params[r].local_path)
    /\ Stages(r)["diff"].go_files_changed # <<>>
    /\ pc[r] \notin {"get_pr", "get_diff", "analyze"}

C4_StagesExactlyAttempted ==
    \A r \in runs :
      /\ Has(Stages(r), "diff") <=> pc[r] \notin {"get_pr", "get_diff"}
      /\ Has(Stages(r), "analysis") <=> AnalysisEnded(r)
      /\ Has(Stages(r), "tests") <=> TestCalls(r) # {}
      /\ Has(Stages(r), "posted_review")
           <=> (pc[r] = "done" /\ Has(review_results[r], "review_body")
                /\ params[r].post_comments)

StagesAppendOnly ==
    [][\A r \in runs :
         /\ DOMAIN Stages(r) \subseteq DOMAIN review_results'[r]["stages"]
         /\ \A k \in DOMAIN Stages(r) : review_results'[r]["stages"][k] = Stages(r)[k]]_vars

(***************************************************************************)
(* C5: the step that records a failed publication leaves the verdict, the  *)
(* review body, the issue list and the diff/analysis/tests entries as      *)
(* aggregation left them; the failure is in the posted_review entry only   *)
(* and no terminal error is set.                                           *)
(***************************************************************************)
C5_PublishFailureFrame ==
    [][\A r \in runs :
         (pc[r] = "publish" /\ pc'[r] = "done") =>
           LET old == review_results[r]
               new == review_results'[r]
           IN  /\ DOMAIN new = DOMAIN old
               /\ ~Has(new, "error")
               /\ \A k \in (DOMAIN old) \ {"stages"} : new[k] = old[k]
               /\ DOMAIN new["stages"] = (DOMAIN old["stages"]) \cup {"posted_review"}
               /\ \A k \in DOMAIN old["stages"] : new["stages"][k] = old["stages"][k]
               /\ Has(new["stages"]["posted_review"], "success")]_vars

C5_Witness ==
    \E r \in runs :
      /\ Has(Stages(r), "posted_review")
      /\ Has(Stages(r)["posted_review"], "error")
      /\ ~Stages(r)["posted_review"].success
      /\ Has(Stages(r), "analysis")
      /\ Has(Stages(r), "tests")
      /\ review_results[r]["recommendation"] = "REQUEST_CHANGES"
      /\ ~Has(review_results[r], "error")

(***************************************************************************)
(* C6: an exception raised in stages 2-5 ends the run with a returned      *)
(* value: the step that catches it adds the terminal error and keeps every *)
(* key and stage entry recorded before it, and the JSON of that result is  *)
(* what the caller gets; no finished run is without a returned value.      *)
(***************************************************************************)
C6_ExceptionKeepsPartialResult ==
    /\ [](\A r \in runs : pc[r] = "done" => returned[r].format # "none")
    /\ [][\A r \in runs :
            raised'[r] # raised[r] =>
              LET old == review_results[r]
                  new == review_results'[r]
              IN  /\ pc'[r] = "done"
                  /\ DOMAIN new = (DOMAIN old) \cup {"error"}
                  /\ \A k \in DOMAIN old : new[k] = old[k]
                  /\ returned'[r] = JsonReturn(new)]_vars

C6_Witness ==
    \E r \in runs :
      /\ raised[r] # <<>>
      /\ pc[r] = "done"
      /\ Has(review_results[r], "error")
      /\ Has(Stages(r), "analysis")
      /\ Has(Stages(r), "tests")
      /\ returned[r].format = "json"
      /\ params[r].response_format = "markdown"

(***************************************************************************)
(* C7: without a local path, once the fetch has succeeded, no process is   *)
(* ever launched, the analysis and tests entries stay absent, and the run  *)
(* ends with an empty issue list and verdict APPROVE.                      *)
(***************************************************************************)
C7_NoLocalPath ==
    \A r \in runs :
      (params[r].local_path \in {NoPath, ""} /\ FetchSucceeded(r)) =>
        /\ ProcessCalls(r) = {}
        /\ ~Has(Stages(r), "analysis")
        /\ ~Has(Stages(r), "tests")
        /\ pc[r] \in {"publish", "done"} =>
             /\ Has(review_results[r], "issues")
             /\ review_results[r]["issues"] = <<>>
             /\ review_results[r]["issues_found"] = 0
             /\ review_results[r]["recommendation"] = "APPROVE"

C7_Witness ==
    \E r \in runs :
      /\ params[r].local_path = NoPath
      /\ params[r].run_tests
      /\ pc[r] = "done"
      /\ FetchSucceeded(r)
      /\ Len(Stages(r)["diff"].go_files_changed) = 2
      /\ review_results[r]["recommendation"] = "APPROVE"

(***************************************************************************)
(* C8: the issue list holds, in analyzed-file order then check order, one  *)
(* issue per failed check outcome, naming that file and that check kind,   *)
(* followed by the "tests" issue of a failed test run; issues_found is the *)
(* list's length and for n > 0 issues the body says "Found n issue(s)".    *)
(***************************************************************************)
C8_IssueList ==
    \A r \in runs :
      Has(review_results[r], "issues") =>
        LET rr == review_results[r]
            issues == rr["issues"]
            F == FailedChecks(rr["stages"])
            n == Cardinality(F)
        IN  /\ Len(issues) = n + (IF TestFailed(rr["stages"]) THEN 1 ELSE 0)
            /\ \A e \in F :
                 LET j == Rank(F, e)
                 IN  /\ j <= Len(issues)
                     /\ issues[j].file = rr["stages"]["analysis"][e[1]].file
                     /\ issues[j].type = CheckOrder[e[2]]
                     /\ \E i \in 1..Len(rr["stages"]["diff"].go_files_changed) :
                          rr["stages"]["diff"].go_files_changed[i] = issues[j].file
            /\ TestFailed(rr["stages"]) =>
                 /\ Len(issues) = n + 1
                 /\ issues[n + 1].file = TestsMarker
            /\ rr["issues_found"] = Len(issues)
            /\ Len(issues) > 0 =>
                 /\ rr["review_body"].kind = "issues"
                 /\ rr["review_body"].found = Len(issues)

C8_Witness ==
    \E r \in runs :
      /\ Has(review_results[r], "issues")
      /\ Len(review_results[r]["issues"]) = 4
      /\ review_results[r]["issues"][1].file # review_results[r]["issues"][3].file
      /\ review_results[r]["issues"][1].type = "lint"
      /\ review_results[r]["issues"][2].type = "vet"
      /\ review_results[r]["issues"][3].type = "fmt"
      /\ review_results[r]["issues"][4].file = TestsMarker

(***************************************************************************)
(* C9: _run_command returns an outcome for every process event: a timeout  *)
(* gives exit status -1, success false and the timeout message as stderr,  *)
(* a launch failure gives exit status -1, success false and the exception  *)
(* text as stderr, and success is true exactly when the exit status is 0.  *)
(***************************************************************************)
C9_CommandOutcome ==
    cmd_pc = "done" =>
      /\ DOMAIN cmd_result = {"stdout", "stderr", "returncode", "success"}
      /\ cmd_result.success <=> (cmd_result.returncode = 0)
      /\ cmd_call.ev.kind = "timeout" =>
           /\ cmd_result.returncode = -1
           /\ ~cmd_result.success
           /\ cmd_result.stderr = Text("Command timed out after 5 minutes", 33)
      /\ cmd_call.ev.kind = "exception" =>
           /\ cmd_result.returncode = -1
           /\ ~cmd_result.success
           /\ cmd_result.stderr = cmd_call.ev.msg

C9_Witness ==
    /\ cmd_pc = "done"
    /\ cmd_call.ev.kind = "timeout"
    /\ cmd_result.returncode = -1

(***************************************************************************)
(* C10: for every diff the parser returns, without raising, exactly the    *)
(* paths of the "+++ b/<path>" lines whose path ends with ".go", the       *)
(* prefix stripped and the rest of the path intact, in diff order with     *)
(* duplicates kept.                                                        *)
(***************************************************************************)
HeaderPrefix == <<"+", "+", "+", " ", "b", "/">>
HeaderPath(line) == SubSeq(line, Len(HeaderPrefix) + 1, Len(line))
IsGoHeader(line) == StartsWith(line, HeaderPrefix) /\ EndsWith(HeaderPath(line), DotGo)
GoHeaderPaths(lines) ==
    LET hs == SelectSeq(lines, IsGoHeader)
    IN  [i \in 1..Len(hs) |-> HeaderPath(hs[i])]

C10_ParseExact ==
    diff_pc = "done" =>
      /\ diff_result.exc = ""
      /\ diff_result.files = GoHeaderPaths(diff_lines)

(***************************************************************************)
(* Vocabulary of the properties about a tool called on its own.            *)
(***************************************************************************)
ToolDone(tool) == tool_pc = "done" /\ tool_call.tool = tool
ToolReturned(tool) == ToolDone(tool) /\ tool_result.exc = ""
\* the call answered with an error payload
ToolErrored(tool) ==
    /\ ToolReturned(tool)
    /\ tool_result.value.format = "json"
    /\ Has(tool_result.value.data, "error")

\* C11: in the markdown report of the code analysis the format section is
\* clean exactly when gofmt exited with zero and wrote nothing, a zero exit
\* with output is shown as formatting issues together with that output, and
\* the lint and vet sections are clean exactly when their tool exited with
\* zero, whatever it wrote.
C11_FormatVerdicts ==
    (ToolReturned("analyze_code") /\ tool_result.value.format = "markdown") =>
        \A i \in DOMAIN tool_result.value.sections :
           LET sec == tool_result.value.sections[i]
               outcome == tool_result.value.data[sec.section]
           IN  /\ sec.section = "fmt" =>
                    /\ sec.clean = (outcome.returncode = 0 /\ outcome.stdout.n = 0)
                    /\ (outcome.returncode = 0 /\ outcome.stdout.n > 0) =>
                         (~sec.clean /\ sec.shown = outcome.stdout)
               /\ sec.section \in {"lint", "vet"} =>
                    sec.clean = (outcome.returncode = 0)

\* gofmt and the linter both exit with zero and write output: the format
\* section reports issues, the lint section is clean
C11_Witness ==
    /\ ToolReturned("analyze_code")
    /\ tool_call.analysis_type = "all"
    /\ tool_result.value.format = "markdown"
    /\ tool_result.env.fmt = EvListed
    /\ tool_result.env.lint = EvListed
    /\ Len(tool_result.value.sections) = 3
    /\ tool_result.value.sections[1].clean
    /\ ~tool_result.value.sections[2].clean

\* C12: a redirect answer to a platform request is followed, so no call of
\* get_pr_diff with a credential ends in the error payload of the redirect's
\* status, neither for the pull request's metadata nor for its diff.
C12_RedirectFollowed ==
    (ToolReturned("get_pr_diff") /\ GITHUB_TOKEN # "") =>
        /\ tool_result.env.pull.kind = "redirect" =>
             tool_result.value.data # HttpStatusPayload(tool_result.env.pull.status)
        /\ (tool_result.env.pull.kind = "ok" /\ tool_result.env.diff.kind = "redirect") =>
             tool_result.value.data # HttpStatusPayload(tool_result.env.diff.status)

\* C13: without a credential no HTTP request leaves the process: get_pr_diff
\* and post_review_comment called on their own send nothing and return the
\* error payload of the ValueError raised before the request, and a review
\* run issues no GET and no POST and ends with that payload as its diff
\* stage, returned to the caller.
C13_NoCredentialNoRequest ==
    GITHUB_TOKEN = "" =>
        /\ \A tool \in {"get_pr_diff", "post_review_comment"} :
             ToolDone(tool) =>
                /\ tool_result.sent = <<>>
                /\ ToolErrored(tool)
                /\ tool_result.value.data.error = <<"Unexpected error", "ValueError">>
                /\ ~tool_result.value.data.success
        /\ \A r \in runs :
             /\ \A i \in 1..Len(calls[r]) : calls[r][i].op \notin {"GET", "POST"}
             /\ pc[r] = "done" =>
                  /\ FetchErrored(r)
                  /\ Stages(r)["diff"].error = <<"Unexpected error", "ValueError">>
                  /\ ~Stages(r)["diff"].success
                  /\ returned[r] = JsonReturn(review_results[r])

\* a review run that was to publish ended without a credential and without
\* a request
C13_Witness ==
    /\ GITHUB_TOKEN = ""
    /\ \E r \in runs :
         /\ pc[r] = "done"
         /\ params[r].post_comments
         /\ calls[r] = <<>>
         /\ FetchErrored(r)
         /\ returned[r].format = "json"

\* a call of post_review_comment without a credential sent nothing although
\* the platform would have accepted the review
C13_ToolWitness ==
    /\ GITHUB_TOKEN = ""
    /\ ToolErrored("post_review_comment")
    /\ tool_result.env.post.kind = "ok"
    /\ tool_result.sent = <<>>

\* C14: every tool returns a value and never raises to its caller: a tool
\* called on its own ends with a returned value whatever its environment
\* did, a review run ends with a returned value, a missing path, a missing
\* credential, a platform error status and a transport failure are answered
\* with an error payload whose success is false, and the payload of a
\* platform error status names that status.
C14_ToolsNeverRaise ==
    /\ tool_pc = "done" =>
         /\ tool_result.exc = ""
         /\ (tool_call.tool = "analyze_code" /\ tool_result.env.exists = "no") =>
              (ToolErrored("analyze_code") /\ ~tool_result.value.data.success)
         /\ (tool_call.tool = "post_review_comment" /\ GITHUB_TOKEN # ""
             /\ tool_result.env.post.kind # "ok") =>
              /\ ToolErrored("post_review_comment")
              /\ ~tool_result.value.data.success
              /\ tool_result.env.post.kind = "status" =>
                   tool_result.value.data.error[2] = tool_result.env.post.status
         /\ (tool_call.tool = "get_pr_diff" /\ GITHUB_TOKEN # ""
             /\ tool_result.env.pull.kind \in {"status", "transport"}) =>
              /\ ToolErrored("get_pr_diff")
              /\ ~tool_result.value.data.success
              /\ tool_result.env.pull.kind = "status" =>
                   tool_result.value.data.error[2] = tool_result.env.pull.status
         /\ (tool_call.tool \in {"get_pr_diff", "post_review_comment"}
             /\ GITHUB_TOKEN = "") =>
              (ToolErrored(tool_call.tool) /\ ~tool_result.value.data.success)
    /\ \A r \in runs :
         pc[r] = "done" => returned[r].format \in {"json", "markdown"}

\* C15: every issue of the run's issue list has a detail text of at most
\* 500 characters, whatever the length of the tool output it was taken from.
C15_IssueDetailsBounded ==
    \A r \in runs :
       Has(review_results[r], "issues") =>
          \A i \in 1..Len(review_results[r]["issues"]) :
             review_results[r]["issues"][i].details.n <= 500

\* C15, amended: the cut is made where the review body is rendered.  Every
\* issue's detail text in the review body is the first 500 characters of the
\* issue's detail text, hence at most 500 characters long, while the issue
\* list keeps the whole text.
C15_BodyDetailsBounded ==
    \A r \in runs :
       (Has(review_results[r], "review_body")
        /\ review_results[r]["review_body"].kind = "issues") =>
          LET issues == review_results[r]["issues"]
              items == review_results[r]["review_body"].items
          IN  /\ Len(items) = Len(issues)
              /\ \A i \in 1..Len(items) :
                    /\ items[i].details.n <= 500
                    /\ items[i].details.s = issues[i].details.s
                    /\ items[i].details.n =
                         (IF issues[i].details.n <= 500 THEN issues[i].details.n
                          ELSE 500)

\* an issue of 501 characters is rendered with 500
C15_Witness ==
    \E r \in runs :
       /\ Has(review_results[r], "review_body")
       /\ review_results[r]["review_body"].kind = "issues"
       /\ review_results[r]["issues"][1].details.n = LongLen
       /\ review_results[r]["review_body"].items[1].details.n = 500

\* C16: analyze_code called with a path that does not exist returns the
\* path-not-found payload with success false and launches no check, whether
\* lint, fmt, vet or all of them were asked for and whatever the format.
C16_MissingPathNoCheck ==
    (ToolDone("analyze_code") /\ tool_result.env.exists = "no") =>
        /\ tool_result.exc = ""
        /\ tool_result.procs = <<>>
        /\ tool_result.value.format = "json"
        /\ DOMAIN tool_result.value.data = {"error", "success"}
        /\ tool_result.value.data.error = <<"Path not found", tool_call.file_path>>
        /\ tool_result.value.data.success = FALSE

\* all checks were asked for on a missing path, with tools that would have
\* run, and none was launched
C16_Witness ==
    /\ ToolErrored("analyze_code")
    /\ tool_call.analysis_type = "all"
    /\ tool_call.response_format = "markdown"
    /\ tool_result.env.exists = "no"
    /\ tool_result.env.lint = EvFailed
    /\ tool_result.procs = <<>>

\* C17: run_tests launches the coverage command and attaches its output as
\* the coverage summary exactly when coverage was asked for and the test
\* process exited with zero; otherwise it launches the test process alone
\* and the report has no coverage summary, in the JSON data and in the
\* markdown sections alike.
C17_CoverageIff ==
    ToolDone("run_tests") =>
        LET wanted == /\ tool_call.coverage
                      /\ tool_result.env.test.kind = "exit"
                      /\ tool_result.env.test.rc = 0
            summary == IF tool_result.env.cover.kind = "exit"
                       THEN tool_result.env.cover.out ELSE EmptyText
            data == tool_result.value.data
        IN  /\ tool_result.exc = ""
            /\ Len(tool_result.procs) = (IF wanted THEN 2 ELSE 1)
            /\ SubSeq(tool_result.procs[1], 1, 2) = <<"go", "test">>
            /\ Has(data, "coverage") = wanted
            /\ wanted =>
                 /\ tool_result.procs[2] = <<"go", "tool", "cover", "-func=coverage.out">>
                 /\ data.coverage = summary
            /\ tool_result.value.format = "markdown" =>
                 ((\E i \in DOMAIN tool_result.value.sections :
                      tool_result.value.sections[i].section = "coverage") = wanted)

\* both cases: a passed run with its coverage summary attached
C17_Witness ==
    /\ ToolDone("run_tests")
    /\ tool_call.coverage
    /\ tool_result.env.test = EvClean
    /\ tool_result.env.cover = EvListed
    /\ Len(tool_result.procs) = 2
    /\ tool_result.value.data.coverage = EvListed.out

\* a failed run with coverage asked for: one process, no summary
C17_FailedWitness ==
    /\ ToolDone("run_tests")
    /\ tool_call.coverage
    /\ tool_result.env.test = EvFailed
    /\ Len(tool_result.procs) = 1
    /\ ~Has(tool_result.value.data, "coverage")

\* C18: the aggregation step reads the stage outputs and nothing else: the
\* step that writes the issue list leaves the stages as they were, and
\* applying it once more to its own result changes nothing, so the issue
\* list, the count, the verdict and the review body come out the same.
C18_AggregationPure ==
    [][\A r \in runs :
          (~Has(review_results[r], "issues") /\ Has(review_results'[r], "issues")) =>
             /\ review_results'[r]["stages"] = review_results[r]["stages"]
             /\ Aggregated(review_results'[r]) = review_results'[r]]_vars

\* an aggregation that found two issues or more and is reproduced by a
\* second application
C18_Witness ==
    \E r \in runs :
       /\ Has(review_results[r], "issues")
       /\ Len(review_results[r]["issues"]) >= 2
       /\ review_results[r]["recommendation"] = "REQUEST_CHANGES"
       /\ Aggregated(review_results[r])["issues"] = review_results[r]["issues"]

\* C19: analyze_code called with an existing path launches every check asked
\* for exactly once, in the order lint, fmt, vet, whatever the earlier
\* checks did (failure, launch failure, timeout), and its report has an
\* outcome for exactly the kinds asked for, each the outcome of its own
\* process.
C19_ChecksInOrder ==
    (ToolDone("analyze_code") /\ tool_result.env.exists = "yes") =>
        LET asked == IF tool_call.analysis_type = "all"
                     THEN <<"lint", "fmt", "vet">>
                     ELSE <<tool_call.analysis_type>>
            data == tool_result.value.data
        IN  /\ tool_result.exc = ""
            /\ tool_result.procs = asked
            /\ DOMAIN data = {asked[i] : i \in 1..Len(asked)}
            /\ \A k \in DOMAIN data :
                  data[k].success =
                    (tool_result.env[k].kind = "exit" /\ tool_result.env[k].rc = 0)

\* the linter could not be launched, gofmt timed out, and go vet still ran
C19_Witness ==
    /\ ToolReturned("analyze_code")
    /\ tool_call.analysis_type = "all"
    /\ tool_result.env.exists = "yes"
    /\ tool_result.env.lint = EvLaunch
    /\ tool_result.env.fmt = EvTimeout
    /\ tool_result.env.vet = EvFailed
    /\ tool_result.procs = <<"lint", "fmt", "vet">>
    /\ ~tool_result.value.data["vet"].success

\* stage of an external call: metadata, diff, check, test run, review post
StageOfCall(c) ==
    CASE c.op = "GET" /\ c.target = "pull" -> 1
      [] c.op = "GET" /\ c.target = "diff_url" -> 2
      [] c.op = "run" /\ c.target # "test" -> 3
      [] c.op = "run" /\ c.target = "test" -> 4
      [] c.op = "POST" -> 5

\* the check calls of a run, in the order issued
CheckCalls(r) == SelectSeq(calls[r], LAMBDA c : StageOfCall(c) = 3)

\* C20: the external calls of a run are issued one after the other in stage
\* order: the log of calls only grows at its end, no call of a later stage
\* precedes one of an earlier stage, the metadata request, the diff request,
\* the test run and the review post are each issued at most once, and the
\* checks come as lint, fmt, vet per analysed file, the files following the
\* diff's listing order with at most one round of checks per listing.
C20_CallsInStageOrder ==
    /\ [](\A r \in runs :
            LET c == calls[r]
                checks == CheckCalls(r)
                rounds == Len(checks) \div 3
            IN  /\ \A i, j \in 1..Len(c) :
                      i < j => StageOfCall(c[i]) <= StageOfCall(c[j])
                /\ \A s \in {1, 2, 4, 5} :
                      Cardinality({i \in 1..Len(c) : StageOfCall(c[i]) = s}) <= 1
                /\ Len(checks) = 3 * rounds
                /\ \A k \in 1..Len(checks) :
                      /\ checks[k].target = <<"lint", "fmt", "vet">>[((k - 1) % 3) + 1]
                      /\ checks[k].path = checks[3 * ((k - 1) \div 3) + 1].path
                /\ \E f \in [1..rounds -> 1..Len(go_files[r])] :
                      /\ \A a, b \in 1..rounds : a < b => f[a] < f[b]
                      /\ \A a \in 1..rounds :
                            checks[3 * a].path = <<params[r].local_path, go_files[r][f[a]]>>)
    /\ [][\A r \in runs :
            /\ Len(calls'[r]) >= Len(calls[r])
            /\ SubSeq(calls'[r], 1, Len(calls[r])) = calls[r]]_vars

\* a run that issued every kind of call: two requests, the checks of two
\* files, the test run and the review post
C20_Witness ==
    \E r \in runs :
       /\ pc[r] = "done"
       /\ Len(calls[r]) = 10
       /\ Len(CheckCalls(r)) = 6
       /\ calls[r][9].target = "test"
       /\ calls[r][10].op = "POST"

\* everything a run holds
RunState(r) ==
    <<params[r], pc[r], review_results[r], go_files[r], analysis_results[r],
      file_idx[r], pr_data[r], calls[r], raised[r], returned[r], existed[r]>>

\* C21: two review runs interleaved in one process do not touch each other:
\* a step that changes one run's state leaves the other run's parameters,
\* stage entries, issue list, verdict, review body and returned value as
\* they were, the one thing the runs share (the credential) never changes,
\* and what a run holds is its own: its pull request number, the diff of
\* its own pull request, checks under its own local path, and an issue
\* count and verdict that follow from its own stage outputs.
C21_RunsIndependent ==
    /\ [][/\ GITHUB_TOKEN' = GITHUB_TOKEN
          /\ \A r, q \in runs :
                (r # q /\ RunState(r)' # RunState(r)) => RunState(q)' = RunState(q)]_vars
    /\ [](\A r \in runs :
            /\ review_results[r]["pr_number"] = params[r].pr_number
            /\ FetchSucceeded(r) => Stages(r)["diff"].pr_number = params[r].pr_number
            /\ \A i \in ProcessCalls(r) :
                  calls[r][i].path = params[r].local_path
                  \/ calls[r][i].path[1] = params[r].local_path
            /\ (Has(review_results[r], "issues")
                /\ Has(review_results[r], "recommendation")) =>
                  /\ Len(review_results[r]["issues"]) =
                       Cardinality(FailedChecks(Stages(r)))
                       + (IF TestFailed(Stages(r)) THEN 1 ELSE 0)
                  /\ review_results[r]["recommendation"] =
                       (IF Len(review_results[r]["issues"]) > 0
                        THEN "REQUEST_CHANGES" ELSE "APPROVE"))

\* both runs went through their stages side by side and ended with
\* different verdicts
C21_Witness ==
    /\ runs = {1, 2}
    /\ pc[1] = "done"
    /\ pc[2] = "done"
    /\ Has(review_results[1], "recommendation")
    /\ Has(review_results[2], "recommendation")
    /\ review_results[1]["recommendation"] = "REQUEST_CHANGES"
    /\ review_results[2]["recommendation"] = "APPROVE"
    /\ Len(review_results[1]["issues"]) = 2

\* one run is in its analysis while the other waits for its diff
C21_InterleavedWitness ==
    /\ runs = {1, 2}
    /\ pc[1] = "tests"
    /\ Has(Stages(1), "analysis")
    /\ pc[2] = "get_diff"

\* C22: a review post is issued only after aggregation has stored the
\* verdict and the review body, and the posted review carries exactly the
\* stored review body and the stored verdict.
C22_PostedExactly ==
    \A r \in runs :
       \A i \in PostCalls(r) :
          /\ Has(review_results[r], "review_body")
          /\ Has(review_results[r], "recommendation")
          /\ calls[r][i].data.body = review_results[r]["review_body"]
          /\ calls[r][i].data.event = review_results[r]["recommendation"]

\* C22, amended: the review post is issued only after aggregation has stored
\* the verdict and the review body, which stay as stored from then on; the
\* posted review carries the stored verdict and the stored review body
\* without its surrounding whitespace: the stored body ends with a newline,
\* the posted body is the same text without it.
C22_PostedStripped ==
    \A r \in runs :
       \A i \in PostCalls(r) :
          /\ Has(review_results[r], "review_body")
          /\ Has(review_results[r], "recommendation")
          /\ Has(review_results[r], "issues")
          /\ calls[r][i].data.event = review_results[r]["recommendation"]
          /\ review_results[r]["review_body"].trailing_newline
          /\ ~calls[r][i].data.body.trailing_newline
          /\ calls[r][i].data.body =
               [review_results[r]["review_body"] EXCEPT !.trailing_newline = FALSE]

\* a review with issues was posted with the verdict REQUEST_CHANGES
C22_Witness ==
    \E r \in runs :
       /\ pc[r] = "done"
       /\ PostCalls(r) # {}
       /\ review_results[r]["recommendation"] = "REQUEST_CHANGES"
       /\ \A i \in PostCalls(r) :
             /\ calls[r][i].data.event = "REQUEST_CHANGES"
             /\ calls[r][i].data.body.kind = "issues"
             /\ calls[r][i].data.body.found = review_results[r]["issues_found"]

\* the listings of run r that existed when the loop passed them, in order
ExistingListings(r) ==
    LET idx == SelectSeq([i \in 1..Len(existed[r]) |-> i],
                         LAMBDA i : existed[r][i] = "yes")
    IN  [k \in 1..Len(idx) |-> go_files[r][idx[k]]]

\* C23: a listed file that does not exist under the local path is passed
\* over in silence: the turn of the loop that finds it missing adds no
\* analysis entry, launches nothing, records no error and ends nothing.
\* The analysis entries are, one per listing and in the diff's order, the
\* listed files that existed, while the loop runs and in the analysis stage
\* once it is stored; no issue names a file that has no entry.
C23_MissingFilesSkipped ==
    /\ [](\A r \in runs :
            /\ Len(existed[r]) <= Len(go_files[r])
            /\ Len(analysis_results[r]) = Len(ExistingListings(r))
            /\ \A k \in 1..Len(analysis_results[r]) :
                  analysis_results[r][k].file = ExistingListings(r)[k]
            /\ Has(Stages(r), "analysis") =>
                  /\ Len(existed[r]) = Len(go_files[r])
                  /\ Stages(r)["analysis"] = analysis_results[r]
            /\ Has(review_results[r], "issues") =>
                  \A i \in 1..Len(review_results[r]["issues"]) :
                     \/ review_results[r]["issues"][i].file = TestsMarker
                     \/ \E k \in 1..Len(analysis_results[r]) :
                           review_results[r]["issues"][i].file = analysis_results[r][k].file)
    /\ [][\A r \in runs :
            (Len(existed'[r]) = Len(existed[r]) + 1
             /\ existed'[r][Len(existed'[r])] = "no") =>
               /\ analysis_results'[r] = analysis_results[r]
               /\ review_results'[r] = review_results[r]
               /\ calls'[r] = calls[r]
               /\ raised'[r] = raised[r]
               /\ returned'[r] = returned[r]
               /\ pc'[r] = pc[r]]_vars

\* of two listed files the first was missing and the second analysed: the
\* run ended with one entry, for the second
C23_Witness ==
    \E r \in runs :
       /\ pc[r] = "done"
       /\ Len(go_files[r]) = 2
       /\ go_files[r][1] # go_files[r][2]
       /\ existed[r] = <<"no", "yes">>
       /\ Has(Stages(r), "analysis")
       /\ Len(Stages(r)["analysis"]) = 1
       /\ Stages(r)["analysis"][1].file = go_files[r][2]
       /\ raised[r] = <<>>

\* C24: a run whose analysis stage holds a path-not-found result for a file
\* (the file passed the existence test of the loop and was gone when
\* analyze_code looked) still ends with a verdict and a review body and
\* without a terminal error.
C24_PathNotFoundGoesOn ==
    \A r \in runs :
       (/\ pc[r] = "done"
        /\ Has(Stages(r), "analysis")
        /\ \E k \in 1..Len(Stages(r)["analysis"]) :
              Has(Stages(r)["analysis"][k].analysis, "error")) =>
          /\ Has(review_results[r], "recommendation")
          /\ Has(review_results[r], "review_body")
          /\ ~Has(review_results[r], "error")
          /\ raised[r] = <<>>

\* C25: when a run that analysed files ends its aggregation with the
\* verdict APPROVE, the format check of every analysed file exited with
\* zero and wrote nothing.
C25_ApproveMeansFormatted ==
    \A r \in runs :
       (/\ Has(review_results[r], "recommendation")
        /\ review_results[r]["recommendation"] = "APPROVE"
        /\ Has(Stages(r), "analysis")) =>
          \A k \in 1..Len(Stages(r)["analysis"]) :
             LET a == Stages(r)["analysis"][k].analysis
             IN  Has(a, "fmt") => (a["fmt"].success /\ a["fmt"].stdout.n = 0)

\* C26: every review run eventually returns a value to its caller, whatever
\* its calls answer (success, error status, transport failure, timeout of a
\* process, a stat that raises) and however many files the diff lists.
C26_EventuallyReturns ==
    <>(\A r \in runs : pc[r] = "done" /\ returned[r].format \in {"json", "markdown"})

\* a run returned its review after the test process had timed out
C26_Witness ==
    \E r \in runs :
       /\ pc[r] = "done"
       /\ returned[r].format = "json"
       /\ returned[r].value = review_results[r]
       /\ Has(Stages(r), "tests")
       /\ Stages(r)["tests"].stderr = TimeoutText
       /\ Len(go_files[r]) = 2

====
